---- MODULE Spec2Model ----
(***************************************************************************)
(* Model of database/searches.go (mig): the SearchParameters filter model, *)
(* the identifier range resolver makeIDsFromParams, the four query         *)
(* builders (SearchCommands, SearchActions, SearchAgents,                  *)
(* SearchInvestigators) and their row hydration loops against the store.   *)
(*                                                                         *)
(* Go strings that are parsed (the identifier filters) are sequences of    *)
(* one-character strings; "oo" stands for the one character U+221E, the    *)
(* infinity sign used as the identifier sentinel.  float64 identifiers are *)
(* records [kind, neg, hi, lo] with value hi * 10^8 + lo, because 2^53-1   *)
(* does not fit a 32-bit integer.  Time is counted in ticks, Hour ticks to *)
(* the hour, from the first moment of the behaviour.                       *)
(***************************************************************************)
EXTENDS Integers, Sequences, FiniteSets, TLC

VARIABLES
    p,                \* the SearchParameters value handed to the call
    kind,             \* which search runs: "commands", "actions", "agents", "investigators"
    doFoundAnything,  \* SearchCommands' second argument
    clock,            \* wall clock: the last value time.Now() returned
    pc,               \* position of the call
    nowB, nowA,       \* the two time.Now() values the builder read
    ids,              \* local ids (IDs struct)
    query, vals,      \* assembled query and bound values
    err,              \* the named result err
    out,              \* the named result collection
    stmt, rows,       \* prepared statement / row cursor: "nil", "open", "closed"
    defers,           \* stack of deferred Close calls
    data,             \* rows the cursor holds (store side)
    pos,              \* number of rows rows.Next() has delivered
    fault,            \* failure the store or a collaborator produced in this call
    log,              \* store round trips issued by this call, in order
    str,              \* result of SearchParameters.String()
    table,            \* the store: rows of the primary table, in the query's ORDER BY order
    prev              \* what the previous call with the same parameters built and returned

vars == <<p, kind, doFoundAnything, clock, pc, nowB, nowA, ids, query, vals, err,
          out, stmt, rows, defers, data, pos, fault, log, str, table, prev>>

-----------------------------------------------------------------------------
(* Bounds of the model *)

\* ticks per hour: the resolution of the clock
Hour == 2
\* latest tick, counted from the construction of the parameters, at which a call reads the clock
MaxElapsed == 2
\* most rows a cursor holds
MaxRows == 2
\* most rows of the table two successive calls search
MaxIdemRows == 1

-----------------------------------------------------------------------------
(* float64 values *)

Base == 10000 * 10000

Num(h, l) == [kind |-> "num", neg |-> FALSE, hi |-> h, lo |-> l]
Inf == [kind |-> "inf", neg |-> FALSE, hi |-> 0, lo |-> 0]
NaN == [kind |-> "nan", neg |-> FALSE, hi |-> 0, lo |-> 0]

\* const MAXFLOAT64 float64 = 9007199254740991
MAXFLOAT64 == Num(90071992, 54740991)

\* 2^53, from which on float64 no longer holds every integer
TwoTo53 == Num(90071992, 54740992)

\* magnitude comparison of two "num" values
MagLess(a, b) == a.hi < b.hi \/ (a.hi = b.hi /\ a.lo < b.lo)

\* a <= b on float64 (false whenever a NaN is involved)
FloatLeq(a, b) ==
    IF a.kind = "nan" \/ b.kind = "nan" THEN FALSE
    ELSE IF a.kind = "inf" THEN a.neg \/ (b.kind = "inf" /\ ~b.neg)
    ELSE IF b.kind = "inf" THEN ~b.neg
    ELSE IF a.neg /\ ~b.neg THEN TRUE
    ELSE IF ~a.neg /\ b.neg THEN a.hi = 0 /\ a.lo = 0 /\ b.hi = 0 /\ b.lo = 0
    ELSE IF a.neg THEN ~MagLess(a, b)
    ELSE ~MagLess(b, a)

-----------------------------------------------------------------------------
(* strconv.ParseFloat(s, 64) on sign, decimal digits, "inf" and "nan" *)

Digits == {"0", "1", "2", "3", "4", "5", "6", "7", "8", "9"}

DigitVal(c) ==
    CASE c = "0" -> 0 [] c = "1" -> 1 [] c = "2" -> 2 [] c = "3" -> 3 [] c = "4" -> 4
      [] c = "5" -> 5 [] c = "6" -> 6 [] c = "7" -> 7 [] c = "8" -> 8 [] c = "9" -> 9

\* the integer a digit string denotes, most significant digit first (at most 16 digits)
RECURSIVE DecimalValue(_, _)
DecimalValue(s, acc) ==
    IF s = <<>> THEN acc
    ELSE LET l == acc.lo * 10 + DigitVal(Head(s))
         IN  DecimalValue(Tail(s), Num(acc.hi * 10 + (l \div Base), l % Base))

\* nearest float64 of a nonnegative integer below 10^16, ties to the even mantissa
RoundToFloat(n) ==
    IF ~MagLess(TwoTo53, n) THEN n
    ELSE CASE n.lo % 2 = 0 -> n
           [] n.lo % 4 = 1 -> Num(n.hi, n.lo - 1)
           [] OTHER        -> IF n.lo + 1 = Base THEN Num(n.hi + 1, 0) ELSE Num(n.hi, n.lo + 1)

IsSpecialInf(s) == s = <<"i", "n", "f">> \/ s = <<"I", "n", "f">>
IsSpecialNaN(s) == s = <<"n", "a", "n">> \/ s = <<"N", "a", "N">>

\* a syntax error returns 0 and a non-nil error
ParseFloat(s) ==
    LET signed == s # <<>> /\ Head(s) \in {"+", "-"}
        neg    == s # <<>> /\ Head(s) = "-"
        body   == IF signed THEN Tail(s) ELSE s
        allDig == body # <<>> /\ \A i \in 1..Len(body) : body[i] \in Digits
    IN  IF IsSpecialInf(body) THEN [ok |-> TRUE, val |-> [Inf EXCEPT !.neg = neg]]
        ELSE IF IsSpecialNaN(s) THEN [ok |-> TRUE, val |-> NaN]
        ELSE IF allDig /\ Len(body) <= 16
             THEN [ok |-> TRUE,
                   val |-> [RoundToFloat(DecimalValue(body, Num(0, 0))) EXCEPT !.neg = neg]]
        ELSE [ok |-> FALSE, val |-> Num(0, 0)]

-----------------------------------------------------------------------------
(* SearchParameters *)

Sentinel == <<"oo">>

\* const defaultSearchPeriod time.Duration = 39600 * time.Hour
defaultSearchPeriod == 39600 * Hour

\* the zero time.Time, long before any tick of the model
ZeroTime == 0 - 2000 * 8766 * Hour

\* var p SearchParameters: the named result of NewSearchParameters before its assignments
ZeroParameters ==
    [ Before           |-> ZeroTime,
      After            |-> ZeroTime,
      AgentName        |-> "",
      AgentID          |-> <<>>,
      ActionName       |-> "",
      ActionID         |-> <<>>,
      CommandID        |-> <<>>,
      ThreatFamily     |-> "",
      Status           |-> "",
      Limit            |-> 0,
      Offset           |-> 0,
      InvestigatorID   |-> <<>>,
      InvestigatorName |-> "",
      Type             |-> "",
      FoundAnything    |-> FALSE ]

\* NewSearchParameters: time.Now() is read once for Before (nowBefore) and once more for
\* After (nowAfter)
NewSearchParameters(nowBefore, nowAfter) ==
    [ Before           |-> nowBefore + defaultSearchPeriod,
      After            |-> nowAfter - defaultSearchPeriod,
      AgentName        |-> "%",
      AgentID          |-> Sentinel,
      ActionName       |-> "%",
      ActionID         |-> Sentinel,
      CommandID        |-> Sentinel,
      ThreatFamily     |-> "%",
      Status           |-> "%",
      Limit            |-> 100,
      Offset           |-> 0,
      InvestigatorID   |-> Sentinel,
      InvestigatorName |-> "%",
      Type             |-> "action",
      FoundAnything    |-> FALSE ]

\* one "key=value" segment of the query string; fmt is the Sprintf verb or time layout
Seg(k, f, v) == [key |-> k, fmt |-> f, val |-> v]

\* faulty variant: the segment is written whatever the test says
OptSegAlways(cond, k, f, v) == <<Seg(k, f, v)>>

\* if p.X != sentinel { query += fmt.Sprintf("&x=...", p.X) }
OptSeg(cond, k, f, v) == IF cond THEN <<Seg(k, f, v)>> ELSE <<>>

\* func (p SearchParameters) String(): the segments in the order they are appended
String(q) ==
    <<Seg("type", "%s", q.Type), Seg("after", "RFC3339", q.After),
      Seg("before", "RFC3339", q.Before)>>
    \o OptSeg(q.AgentName # "%", "agentname", "%s", q.AgentName)
    \o OptSeg(q.AgentID # Sentinel, "agentid", "%s", q.AgentID)
    \o OptSeg(q.ActionName # "%", "actionname", "%s", q.ActionName)
    \o OptSeg(q.ActionID # Sentinel, "actionid", "%s", q.ActionID)
    \o OptSeg(q.CommandID # Sentinel, "commandid", "%s", q.CommandID)
    \o OptSeg(q.InvestigatorID # Sentinel, "investigatorid", "%s", q.InvestigatorID)
    \o OptSeg(q.InvestigatorName # "%", "investigatorname", "%s", q.InvestigatorName)
    \o OptSeg(q.ThreatFamily # "%", "threatfamily", "%s", q.ThreatFamily)
    \o OptSeg(q.Status # "%", "status", "%s", q.Status)
    \o <<Seg("limit", "%.0f", q.Limit)>>
    \o OptSeg(q.Offset # 0, "offset", "%.0f", q.Offset)

-----------------------------------------------------------------------------
(* makeIDsFromParams *)

\* faulty variant: the upper bound is not collapsed onto the parsed value
ResolveIDKeepMax(s) ==
    IF s # Sentinel
    THEN LET r == ParseFloat(s)
         IN  [ok |-> r.ok, min |-> r.val, max |-> MAXFLOAT64]
    ELSE [ok |-> TRUE, min |-> Num(0, 0), max |-> MAXFLOAT64]

\* one identifier filter: the pair it resolves to, or the parse error
ResolveID(s) ==
    IF s # Sentinel
    THEN LET r == ParseFloat(s)
         IN  IF r.ok THEN [ok |-> TRUE, min |-> r.val, max |-> r.val]
             ELSE [ok |-> FALSE, min |-> r.val, max |-> MAXFLOAT64]
    ELSE [ok |-> TRUE, min |-> Num(0, 0), max |-> MAXFLOAT64]

ZeroIDs ==
    [ minActionID |-> Num(0, 0), maxActionID |-> Num(0, 0),
      minCommandID |-> Num(0, 0), maxCommandID |-> Num(0, 0),
      minAgentID |-> Num(0, 0), maxAgentID |-> Num(0, 0),
      minInvID |-> Num(0, 0), maxInvID |-> Num(0, 0) ]

\* the fields are resolved in the order action, command, agent, investigator and the
\* first parse error returns at once, leaving the later fields at their zero value
makeIDsFromParams(q) ==
    LET a == ResolveID(q.ActionID)
        c == ResolveID(q.CommandID)
        g == ResolveID(q.AgentID)
        i == ResolveID(q.InvestigatorID)
        i1 == [ZeroIDs EXCEPT !.minActionID = a.min, !.maxActionID = a.max]
        i2 == [i1 EXCEPT !.minCommandID = c.min, !.maxCommandID = c.max]
        i3 == [i2 EXCEPT !.minAgentID = g.min, !.maxAgentID = g.max]
        i4 == [i3 EXCEPT !.minInvID = i.min, !.maxInvID = i.max]
    IN  IF ~a.ok THEN [err |-> "parse", ids |-> i1]
        ELSE IF ~c.ok THEN [err |-> "parse", ids |-> i2]
        ELSE IF ~g.ok THEN [err |-> "parse", ids |-> i3]
        ELSE IF ~i.ok THEN [err |-> "parse", ids |-> i4]
        ELSE [err |-> "nil", ids |-> i4]

-----------------------------------------------------------------------------
(* The assembled query: tokens of the WHERE text, bound values, join clause *)

\* a predicate `tbl.col op $ph`
Cmp(tbl, col, op, n) == [tok |-> "cmp", tbl |-> tbl, col |-> col, op |-> op, ph |-> n]
\* the " AND " written between two filters' clauses
SepTok == [tok |-> "sep", tbl |-> "", col |-> "", op |-> "", ph |-> 0]
\* the AND written inside one filter's clause
AndTok == [tok |-> "and", tbl |-> "", col |-> "", op |-> "", ph |-> 0]
\* `commands.id IN ( SELECT ... WHERE commands.actionid=actions.id`
InSubTok == [tok |-> "insub", tbl |-> "commands", col |-> "id", op |-> "IN", ph |-> 0]

\* FROM commands, actions, json_array_elements(commands.results) as r : the tables the
\* subquery of the doFoundAnything clause brings into scope until its closing parenthesis
SubqueryFrom == {"commands", "actions", "r"}

\* bound values: src is the Go expression appended to vals
ValTime(src, t)  == [src |-> src, ty |-> "time",    n |-> t, f |-> Num(0, 0), s |-> ""]
ValFloat(src, x) == [src |-> src, ty |-> "float64", n |-> 0, f |-> x,         s |-> ""]
ValStr(src, x)   == [src |-> src, ty |-> "string",  n |-> 0, f |-> Num(0, 0), s |-> x]
ValUint(src, x)  == [src |-> src, ty |-> "uint64",  n |-> x, f |-> Num(0, 0), s |-> ""]
ValBool(src, x)  == [src |-> src, ty |-> "bool",    n |-> IF x THEN 1 ELSE 0,
                     f |-> Num(0, 0), s |-> ""]

\* INNER JOIN tbl ON ( l = r )
Join(tbl, l, r) == [tbl |-> tbl, l |-> l, r |-> r]

\* where := "", vals := []interface{}{}, valctr := 0, all join flags false
EmptyBuilder == [where |-> <<>>, vals |-> <<>>, valctr |-> 0, flags |-> {}]

\* if valctr > 0 { where += " AND " }
Sep(b) == IF b.valctr > 0 THEN <<SepTok>> ELSE <<>>

\* faulty variant: the one-hour tolerance is left out
BeforeActiveNoTolerance(q, now) == q.Before < now + defaultSearchPeriod

\* faulty variant: the boundary itself counts as before
BeforeActiveInclusive(q, now) == q.Before <= now + (defaultSearchPeriod - Hour)

\* p.Before.Before(time.Now().Add(defaultSearchPeriod - time.Hour))
BeforeActive(q, now) == q.Before < now + (defaultSearchPeriod - Hour)

\* p.After.After(time.Now().Add(-(defaultSearchPeriod - time.Hour)))
AfterActive(q, now) == q.After > now - (defaultSearchPeriod - Hour)

\* the Before clause: the first one, written without the valctr > 0 test
AddBefore(b, tbl, col, q) ==
    [b EXCEPT !.where  = b.where \o <<Cmp(tbl, col, "<=", b.valctr + 1)>>,
              !.vals   = Append(b.vals, ValTime("p.Before", q.Before)),
              !.valctr = b.valctr + 1]

\* a clause taking one slot: the After clause, a pattern or a status filter
AddOne(b, tbl, col, op, v, fl) ==
    [b EXCEPT !.where  = b.where \o Sep(b) \o <<Cmp(tbl, col, op, b.valctr + 1)>>,
              !.vals   = Append(b.vals, v),
              !.valctr = b.valctr + 1,
              !.flags  = b.flags \cup fl]

\* faulty variant: the range clause advances valctr by one only
AddRangeOneSlot(b, tbl, vmin, vmax, fl) ==
    [b EXCEPT !.where  = b.where \o Sep(b)
                         \o <<Cmp(tbl, "id", ">=", b.valctr + 1), AndTok,
                              Cmp(tbl, "id", "<=", b.valctr + 2)>>,
              !.vals   = b.vals \o <<vmin, vmax>>,
              !.valctr = b.valctr + 1,
              !.flags  = b.flags \cup fl]

\* an identifier clause: tbl.id >= $n AND tbl.id <= $n+1, two slots
AddRange(b, tbl, vmin, vmax, fl) ==
    [b EXCEPT !.where  = b.where \o Sep(b)
                         \o <<Cmp(tbl, "id", ">=", b.valctr + 1), AndTok,
                              Cmp(tbl, "id", "<=", b.valctr + 2)>>,
              !.vals   = b.vals \o <<vmin, vmax>>,
              !.valctr = b.valctr + 2,
              !.flags  = b.flags \cup fl]

\* the doFoundAnything clause of SearchCommands, four slots
AddFoundAnything(b, q, i) ==
    [b EXCEPT !.where  = b.where \o Sep(b)
                         \o <<Cmp("commands", "status", "=", b.valctr + 1), AndTok, InSubTok,
                              AndTok, Cmp("actions", "id", ">=", b.valctr + 2),
                              AndTok, Cmp("actions", "id", "<=", b.valctr + 3),
                              AndTok, Cmp("r", "foundanything", "=", b.valctr + 4)>>,
              !.vals   = b.vals \o <<ValStr("mig.StatusSuccess", "success"),
                                     ValFloat("ids.minActionID", i.minActionID),
                                     ValFloat("ids.maxActionID", i.maxActionID),
                                     ValBool("p.FoundAnything", q.FoundAnything)>>,
              !.valctr = b.valctr + 4]

\* uint64(p.Limit), uint64(p.Offset) for the nonnegative whole numbers the model uses
Uint64(x) == x

\* GROUP BY ... ORDER BY ... LIMIT $n+1 OFFSET $n+2 and the two trailing values
Finish(b, q, from, join, groupby, orderby) ==
    [ query |-> [ from    |-> from,
                  join    |-> join,
                  where   |-> b.where,
                  groupby |-> groupby,
                  orderby |-> orderby,
                  limit   |-> b.valctr + 1,
                  offset  |-> b.valctr + 2 ],
      vals  |-> b.vals \o <<ValUint("p.Limit", Uint64(q.Limit)),
                            ValUint("p.Offset", Uint64(q.Offset))>> ]

\* the filter clauses every search shares, each guarded by its "is set" test
IfBefore(b, tbl, col, q, now) ==
    IF BeforeActive(q, now) THEN AddBefore(b, tbl, col, q) ELSE b
IfAfter(b, tbl, col, q, now) ==
    IF AfterActive(q, now)
    THEN AddOne(b, tbl, col, ">=", ValTime("p.After", q.After), {}) ELSE b
IfPattern(b, tbl, col, src, v, fl) ==
    IF v # "%" THEN AddOne(b, tbl, col, "ILIKE", ValStr(src, v), fl) ELSE b
IfCommandID(b, q, i, fl) ==
    IF q.CommandID # Sentinel
    THEN AddRange(b, "commands", ValFloat("ids.minCommandID", i.minCommandID),
                  ValFloat("ids.maxCommandID", i.maxCommandID), fl) ELSE b
IfActionID(b, q, i, fl) ==
    IF q.ActionID # Sentinel
    THEN AddRange(b, "actions", ValFloat("ids.minActionID", i.minActionID),
                  ValFloat("ids.maxActionID", i.maxActionID), fl) ELSE b
IfInvestigatorID(b, q, i, fl) ==
    IF q.InvestigatorID # Sentinel
    THEN AddRange(b, "investigators", ValFloat("ids.minInvID", i.minInvID),
                  ValFloat("ids.maxInvID", i.maxInvID), fl) ELSE b
IfAgentID(b, q, i, fl) ==
    IF q.AgentID # Sentinel
    THEN AddRange(b, "agents", ValFloat("ids.minAgentID", i.minAgentID),
                  ValFloat("ids.maxAgentID", i.maxAgentID), fl) ELSE b

-----------------------------------------------------------------------------
(* The four query builders *)

OnCol(tbl, col) == <<tbl, col>>

SigInvJoin ==
    << Join("signatures", OnCol("actions", "id"), OnCol("signatures", "actionid")),
       Join("investigators", OnCol("signatures", "investigatorid"),
            OnCol("investigators", "id")) >>

\* SearchCommands: the join clause is fixed text
CommandsJoinClause ==
    << Join("actions", OnCol("commands", "actionid"), OnCol("actions", "id")) >>
    \o SigInvJoin
    \o << Join("agents", OnCol("commands", "agentid"), OnCol("agents", "id")) >>

SearchCommandsBuild(q, i, dfa, nB, nA) ==
    LET b1  == IfBefore(EmptyBuilder, "commands", "starttime", q, nB)
        b2  == IfAfter(b1, "commands", "starttime", q, nA)
        b3  == IfCommandID(b2, q, i, {})
        b4  == IfPattern(b3, "commands", "status", "p.Status", q.Status, {})
        b5  == IfActionID(b4, q, i, {})
        b6  == IfPattern(b5, "actions", "name", "p.ActionName", q.ActionName, {})
        b7  == IfInvestigatorID(b6, q, i, {})
        b8  == IfPattern(b7, "investigators", "name", "p.InvestigatorName",
                         q.InvestigatorName, {})
        b9  == IfAgentID(b8, q, i, {})
        b10 == IfPattern(b9, "agents", "name", "p.AgentName", q.AgentName, {})
        b11 == IF dfa THEN AddFoundAnything(b10, q, i) ELSE b10
        b12 == IfPattern(b11, "actions", "threat.family", "p.ThreatFamily",
                         q.ThreatFamily, {})
    IN  Finish(b12, q, "commands", CommandsJoinClause,
               <<"commands.id", "actions.id", "agents.id">>, "commands.starttime DESC")

\* SearchActions: if joinCommand / joinAgent / joinInvestigator { join += ... }
ActionsJoinClause(fl) ==
    (IF "joinCommand" \in fl
     THEN <<Join("commands", OnCol("commands", "actionid"), OnCol("actions", "id"))>>
     ELSE <<>>)
    \o (IF "joinAgent" \in fl
        THEN <<Join("agents", OnCol("commands", "agentid"), OnCol("agents", "id"))>>
        ELSE <<>>)
    \o (IF "joinInvestigator" \in fl THEN SigInvJoin ELSE <<>>)

SearchActionsBuild(q, i, nB, nA) ==
    LET b1  == IfBefore(EmptyBuilder, "actions", "expireafter", q, nB)
        b2  == IfAfter(b1, "actions", "validfrom", q, nA)
        b3  == IfPattern(b2, "action", "status", "p.Status", q.Status, {})
        b4  == IfActionID(b3, q, i, {})
        b5  == IfPattern(b4, "actions", "name", "p.ActionName", q.ActionName, {})
        b6  == IfInvestigatorID(b5, q, i, {"joinInvestigator"})
        b7  == IfPattern(b6, "investigators", "name", "p.InvestigatorName",
                         q.InvestigatorName, {"joinInvestigator"})
        b8  == IfAgentID(b7, q, i, {"joinAgent", "joinCommand"})
        b9  == IfPattern(b8, "agents", "name", "p.AgentName", q.AgentName,
                         {"joinAgent", "joinCommand"})
        b10 == IfCommandID(b9, q, i, {"joinCommand"})
        join == ActionsJoinClause(b10.flags)
        b11 == IfPattern(b10, "actions", "threat.family", "p.ThreatFamily",
                         q.ThreatFamily, {})
    IN  Finish(b11, q, "actions", join, <<"actions.id">>, "actions.validfrom DESC")

\* faulty variant: the actions join hangs on joinCommand instead of joinAction
AgentsJoinClauseByCommand(fl) ==
    (IF "joinCommand" \in fl
     THEN <<Join("commands", OnCol("commands", "agentid"), OnCol("agents", "id"))>>
     ELSE <<>>)
    \o (IF "joinCommand" \in fl
        THEN <<Join("actions", OnCol("commands", "actionid"), OnCol("actions", "id"))>>
        ELSE <<>>)
    \o (IF "joinInvestigator" \in fl THEN SigInvJoin ELSE <<>>)

\* SearchAgents: if joinCommand / joinAction / joinInvestigator { join += ... }
AgentsJoinClause(fl) ==
    (IF "joinCommand" \in fl
     THEN <<Join("commands", OnCol("commands", "agentid"), OnCol("agents", "id"))>>
     ELSE <<>>)
    \o (IF "joinAction" \in fl
        THEN <<Join("actions", OnCol("commands", "actionid"), OnCol("actions", "id"))>>
        ELSE <<>>)
    \o (IF "joinInvestigator" \in fl THEN SigInvJoin ELSE <<>>)

SearchAgentsBuild(q, i, nB, nA) ==
    LET b1  == IfBefore(EmptyBuilder, "agents", "heartbeattime", q, nB)
        b2  == IfAfter(b1, "agents", "heartbeattime", q, nA)
        b3  == IfAgentID(b2, q, i, {})
        b4  == IfPattern(b3, "agents", "name", "p.AgentName", q.AgentName, {})
        b5  == IfPattern(b4, "agents", "status", "p.Status", q.Status, {})
        b6  == IfActionID(b5, q, i, {"joinAction", "joinCommand"})
        b7  == IfPattern(b6, "actions", "name", "p.ActionName", q.ActionName,
                         {"joinAction", "joinCommand"})
        b8  == IfPattern(b7, "actions", "threat.family", "p.ThreatFamily",
                         q.ThreatFamily, {"joinAction", "joinCommand"})
        b9  == IfInvestigatorID(b8, q, i, {"joinInvestigator", "joinCommand", "joinAction"})
        b10 == IfPattern(b9, "investigators", "name", "p.InvestigatorName",
                         q.InvestigatorName, {"joinInvestigator", "joinCommand", "joinAction"})
        b11 == IfCommandID(b10, q, i, {"joinCommand"})
    IN  Finish(b11, q, "agents", AgentsJoinClause(b11.flags), <<"agents.id">>,
               "agents.heartbeattime DESC")

\* SearchInvestigators: if joinAction / joinCommand / joinAgent { join += ... }
InvestigatorsJoinClause(fl) ==
    (IF "joinAction" \in fl
     THEN << Join("signatures", OnCol("signatures", "investigatorid"),
                  OnCol("investigators", "id")),
             Join("actions", OnCol("actions", "id"), OnCol("signatures", "actionid")) >>
     ELSE <<>>)
    \o (IF "joinCommand" \in fl
        THEN <<Join("commands", OnCol("commands", "actionid"), OnCol("actions", "id"))>>
        ELSE <<>>)
    \o (IF "joinAgent" \in fl
        THEN <<Join("agents", OnCol("commands", "agentid"), OnCol("agents", "id"))>>
        ELSE <<>>)

SearchInvestigatorsBuild(q, i, nB, nA) ==
    LET b1  == IfBefore(EmptyBuilder, "investigators", "lastmodified", q, nB)
        b2  == IfAfter(b1, "investigators", "lastmodified", q, nA)
        b3  == IfInvestigatorID(b2, q, i, {})
        b4  == IfPattern(b3, "investigators", "name", "p.InvestigatorName",
                         q.InvestigatorName, {})
        b5  == IfPattern(b4, "investigators", "status", "p.Status", q.Status, {})
        b6  == IfActionID(b5, q, i, {"joinAction"})
        b7  == IfPattern(b6, "actions", "name", "p.ActionName", q.ActionName, {"joinAction"})
        b8  == IfPattern(b7, "actions", "threat.family", "p.ThreatFamily",
                         q.ThreatFamily, {"joinAction"})
        b9  == IfCommandID(b8, q, i, {"joinCommand", "joinAction"})
        b10 == IfAgentID(b9, q, i, {"joinCommand", "joinAction", "joinAgent"})
        b11 == IfPattern(b10, "agents", "name", "p.AgentName", q.AgentName,
                         {"joinCommand", "joinAction", "joinAgent"})
    IN  Finish(b11, q, "investigators", InvestigatorsJoinClause(b11.flags),
               <<"investigators.id">>, "investigators.id ASC")

\* the query and values the search of kind k assembles
Build(k, q, i, dfa, nB, nA) ==
    CASE k = "commands"      -> SearchCommandsBuild(q, i, dfa, nB, nA)
      [] k = "actions"       -> SearchActionsBuild(q, i, nB, nA)
      [] k = "agents"        -> SearchAgentsBuild(q, i, nB, nA)
      [] k = "investigators" -> SearchInvestigatorsBuild(q, i, nB, nA)

-----------------------------------------------------------------------------
(* The store *)

\* a row of the primary table: its identifier and the value of the time column the
\* search's time window is applied to
Row(n, t) == [id |-> n, t |-> t]

\* the engine's evaluation of the time-window predicates of a query on one row
InWindow(r, qy, vs) ==
    \A k \in 1..Len(qy.where) :
        LET tk == qy.where[k]
        IN  (tk.tok = "cmp" /\ vs[tk.ph].ty = "time")
                => /\ (tk.op = "<=" => r.t <= vs[tk.ph].n)
                   /\ (tk.op = ">=" => r.t >= vs[tk.ph].n)

\* rows the cursor of a query will deliver: the table holds the rows that satisfy the
\* query's other predicates; the engine applies the time window, then OFFSET and LIMIT
Select(tb, qy, vs) ==
    LET Keep(r) == InWindow(r, qy, vs)
        kept    == SelectSeq(tb, Keep)
        off     == vs[qy.offset].n
        lim     == vs[qy.limit].n
        last    == IF off + lim < Len(kept) THEN off + lim ELSE Len(kept)
    IN  SubSeq(kept, off + 1, last)

-----------------------------------------------------------------------------
(* One search call *)

EmptyQuery ==
    [from |-> "", join |-> <<>>, where |-> <<>>, groupby |-> <<>>, orderby |-> "",
     limit |-> 0, offset |-> 0]

Event(op, n) == [op |-> op, row |-> n]

\* faulty variant: no Close is deferred
DeferCloseNever(d, name, handle) == d

\* if stmt != nil { defer stmt.Close() }, likewise for rows
DeferClose(d, name, handle) == IF handle # "nil" THEN <<name>> \o d ELSE d

\* state of a resource once the deferred calls of d have run
AfterDefers(d, name, handle) ==
    IF \E k \in 1..Len(d) : d[k] = name THEN "closed" ELSE handle

\* if err := rows.Err(); err != nil { err = fmt.Errorf(...) } : the err assigned is the
\* one the if statement declares, so the named result keeps its value
CursorCheck(e, rowsErr) == e

\* return: the deferred calls run, then the caller sees err and the collection
Return(e, st, rw) ==
    /\ pc' = "returned"
    /\ err' = e
    /\ stmt' = AfterDefers(defers, "stmt", st)
    /\ rows' = AfterDefers(defers, "rows", rw)
    /\ defers' = <<>>

Hydrates == kind \in {"commands", "actions"}

\* ids, err := makeIDsFromParams(p); if err != nil { return }
CallParseError ==
    /\ pc = "idle"
    /\ makeIDsFromParams(p).err # "nil"
    /\ ids' = makeIDsFromParams(p).ids
    /\ Return(makeIDsFromParams(p).err, stmt, rows)
    /\ UNCHANGED <<p, kind, doFoundAnything, clock, nowB, nowA, query, vals, out, data,
                   pos, fault, log, str, table, prev>>

\* the query is assembled; the clock is read once for Before and once for After
CallBuild ==
    /\ pc = "idle"
    /\ makeIDsFromParams(p).err = "nil"
    /\ \E nB \in clock..MaxElapsed : \E nA \in nB..MaxElapsed :
          LET built == Build(kind, p, makeIDsFromParams(p).ids, doFoundAnything, nB, nA)
          IN  /\ nowB' = nB
              /\ nowA' = nA
              /\ clock' = nA
              /\ query' = built.query
              /\ vals' = built.vals
    /\ ids' = makeIDsFromParams(p).ids
    /\ pc' = "prepare"
    /\ UNCHANGED <<p, kind, doFoundAnything, err, out, stmt, rows, defers, data, pos,
                   fault, log, str, table, prev>>

\* stmt, err := db.c.Prepare(query) succeeds
PrepareOk ==
    /\ pc = "prepare"
    /\ log' = Append(log, Event("Prepare", 0))
    /\ stmt' = "open"
    /\ defers' = DeferClose(defers, "stmt", "open")
    /\ pc' = "query"
    /\ UNCHANGED <<p, kind, doFoundAnything, clock, nowB, nowA, ids, query, vals, err, out,
                   rows, data, pos, fault, str, table, prev>>

\* db.c.Prepare fails: stmt is nil
PrepareFail ==
    /\ pc = "prepare"
    /\ log' = Append(log, Event("Prepare", 0))
    /\ fault' = "prepare"
    /\ Return("prepare", "nil", rows)
    /\ UNCHANGED <<p, kind, doFoundAnything, clock, nowB, nowA, ids, query, vals, out,
                   data, pos, str, table, prev>>

\* rows, err = stmt.Query(vals...) succeeds
QueryOk ==
    /\ pc = "query"
    /\ log' = Append(log, Event("Query", 0))
    /\ rows' = "open"
    /\ defers' = DeferClose(defers, "rows", "open")
    /\ data' = Select(table, query, vals)
    /\ pos' = 0
    /\ pc' = "next"
    /\ UNCHANGED <<p, kind, doFoundAnything, clock, nowB, nowA, ids, query, vals, err, out,
                   stmt, fault, str, table, prev>>

\* stmt.Query fails: rows is nil
QueryFail ==
    /\ pc = "query"
    /\ log' = Append(log, Event("Query", 0))
    /\ fault' = "query"
    /\ Return("query", stmt, "nil")
    /\ UNCHANGED <<p, kind, doFoundAnything, clock, nowB, nowA, ids, query, vals, out,
                   data, pos, str, table, prev>>

\* rows.Next() delivers the next row
NextRow ==
    /\ pc = "next"
    /\ pos < Len(data)
    /\ pos' = pos + 1
    /\ pc' = "scan"
    /\ UNCHANGED <<p, kind, doFoundAnything, clock, nowB, nowA, ids, query, vals, err, out,
                   stmt, rows, defers, data, fault, log, str, table, prev>>

\* rows.Next() is false at the end of the rows, rows.Err() is nil
NextEnd ==
    /\ pc = "next"
    /\ pos = Len(data)
    /\ Return(CursorCheck(err, "nil"), stmt, rows)
    /\ UNCHANGED <<p, kind, doFoundAnything, clock, nowB, nowA, ids, query, vals, out,
                   data, pos, fault, log, str, table, prev>>

\* rows.Next() is false because the cursor failed, rows.Err() is non-nil
NextCursorErr ==
    /\ pc = "next"
    /\ fault' = "cursor"
    /\ Return(CursorCheck(err, "cursor"), stmt, rows)
    /\ UNCHANGED <<p, kind, doFoundAnything, clock, nowB, nowA, ids, query, vals, out,
                   data, pos, log, str, table, prev>>

\* rows.Scan succeeds; SearchAgents and SearchInvestigators append the record at once
ScanOk ==
    /\ pc = "scan"
    /\ IF Hydrates
       THEN pc' = "unmarshal" /\ out' = out
       ELSE pc' = "next" /\ out' = Append(out, data[pos])
    /\ UNCHANGED <<p, kind, doFoundAnything, clock, nowB, nowA, ids, query, vals, err,
                   stmt, rows, defers, data, pos, fault, log, str, table, prev>>

ScanFail ==
    /\ pc = "scan"
    /\ fault' = "scan"
    /\ Return("scan", stmt, rows)
    /\ UNCHANGED <<p, kind, doFoundAnything, clock, nowB, nowA, ids, query, vals, out,
                   data, pos, log, str, table, prev>>

\* every json.Unmarshal of the row's sub-documents succeeds
UnmarshalOk ==
    /\ pc = "unmarshal"
    /\ pc' = "counters"
    /\ UNCHANGED <<p, kind, doFoundAnything, clock, nowB, nowA, ids, query, vals, err, out,
                   stmt, rows, defers, data, pos, fault, log, str, table, prev>>

\* faulty variant: the row is appended before the failure is returned
UnmarshalFailKeepsRow ==
    /\ pc = "unmarshal"
    /\ fault' = "unmarshal"
    /\ out' = Append(out, data[pos])
    /\ Return("unmarshal", stmt, rows)
    /\ UNCHANGED <<p, kind, doFoundAnything, clock, nowB, nowA, ids, query, vals,
                   data, pos, log, str, table, prev>>

\* one json.Unmarshal fails
UnmarshalFail ==
    /\ pc = "unmarshal"
    /\ fault' = "unmarshal"
    /\ Return("unmarshal", stmt, rows)
    /\ UNCHANGED <<p, kind, doFoundAnything, clock, nowB, nowA, ids, query, vals, out,
                   data, pos, log, str, table, prev>>

\* db.GetActionCounters succeeds
CountersOk ==
    /\ pc = "counters"
    /\ log' = Append(log, Event("counters", data[pos].id))
    /\ pc' = "investigators"
    /\ UNCHANGED <<p, kind, doFoundAnything, clock, nowB, nowA, ids, query, vals, err, out,
                   stmt, rows, defers, data, pos, fault, str, table, prev>>

\* faulty variant: the failure of the counters lookup is not returned
CountersFailIgnored ==
    /\ pc = "counters"
    /\ log' = Append(log, Event("counters", data[pos].id))
    /\ fault' = "counters"
    /\ pc' = "investigators"
    /\ UNCHANGED <<p, kind, doFoundAnything, clock, nowB, nowA, ids, query, vals, err, out,
                   stmt, rows, defers, data, pos, str, table, prev>>

\* db.GetActionCounters fails
CountersFail ==
    /\ pc = "counters"
    /\ log' = Append(log, Event("counters", data[pos].id))
    /\ fault' = "counters"
    /\ Return("counters", stmt, rows)
    /\ UNCHANGED <<p, kind, doFoundAnything, clock, nowB, nowA, ids, query, vals, out,
                   data, pos, str, table, prev>>

\* db.InvestigatorByActionID succeeds and the record is appended
InvestigatorsOk ==
    /\ pc = "investigators"
    /\ log' = Append(log, Event("investigators", data[pos].id))
    /\ out' = Append(out, data[pos])
    /\ pc' = "next"
    /\ UNCHANGED <<p, kind, doFoundAnything, clock, nowB, nowA, ids, query, vals, err,
                   stmt, rows, defers, data, pos, fault, str, table, prev>>

InvestigatorsFail ==
    /\ pc = "investigators"
    /\ log' = Append(log, Event("investigators", data[pos].id))
    /\ fault' = "investigators"
    /\ Return("investigators", stmt, rows)
    /\ UNCHANGED <<p, kind, doFoundAnything, clock, nowB, nowA, ids, query, vals, out,
                   data, pos, str, table, prev>>

\* the caller keeps what the call built and returned and calls again with the same
\* SearchParameters, later
Again ==
    /\ pc = "returned"
    /\ prev = <<>>
    /\ prev' = <<[query |-> query, vals |-> vals, out |-> out, err |-> err,
                  nowB |-> nowB, nowA |-> nowA]>>
    /\ pc' = "idle"
    /\ ids' = ZeroIDs
    /\ query' = EmptyQuery
    /\ vals' = <<>>
    /\ err' = "nil"
    /\ out' = <<>>
    /\ stmt' = "nil"
    /\ rows' = "nil"
    /\ data' = <<>>
    /\ pos' = 0
    /\ fault' = "none"
    /\ log' = <<>>
    /\ UNCHANGED <<p, kind, doFoundAnything, clock, nowB, nowA, defers, str, table>>

\* the caller renders its parameters as a query string
ApplyString ==
    /\ pc = "idle"
    /\ str = <<>>
    /\ str' = String(p)
    /\ UNCHANGED <<p, kind, doFoundAnything, clock, pc, nowB, nowA, ids, query, vals, err,
                   out, stmt, rows, defers, data, pos, fault, log, table, prev>>

\* the caller builds its parameters: p := NewSearchParameters()
Construct ==
    /\ pc = "new"
    /\ \E nowBefore \in clock..MaxElapsed : \E nowAfter \in nowBefore..MaxElapsed :
          /\ p' = NewSearchParameters(nowBefore, nowAfter)
          /\ clock' = nowAfter
    /\ pc' = "idle"
    /\ UNCHANGED <<kind, doFoundAnything, nowB, nowA, ids, query, vals, err, out, stmt, rows,
                   defers, data, pos, fault, log, str, table, prev>>

-----------------------------------------------------------------------------
(* Inputs and specifications *)

\* identifier filters the callers pass: the sentinel, a number, something that is no number
ActionIDs       == {Sentinel, <<"4", "2">>, <<"a", "b", "c">>}
CommandIDs      == {Sentinel, <<"7">>, <<"x", "1">>}
AgentIDs        == {Sentinel, <<"1", "2", "3", "4", "5", "6", "7", "8", "9", "0", "1", "2", "3">>,
                    <<"-">>}
InvestigatorIDs == {Sentinel, <<"0">>, <<"4", "2", "!">>}

NotNumbers == {<<"a", "b", "c">>, <<"x", "1">>, <<"-">>, <<"4", "2", "!">>}

\* Before and After the callers pass, as distances from the defaults built at tick 0
BeforeValues == {defaultSearchPeriod + d : d \in {0, 0 - Hour}}
AfterValues  == {d - defaultSearchPeriod : d \in {0, Hour + 1}}

\* parameters built by NewSearchParameters at tick 0, then edited by the caller
ParamSpace(aids, cids, gids, iids, names, befores, afters, offsets, found) ==
    { [NewSearchParameters(0, 0) EXCEPT
          !.ActionID = x[1], !.CommandID = x[2], !.AgentID = x[3], !.InvestigatorID = x[4],
          !.AgentName = n[1], !.ActionName = n[2], !.InvestigatorName = n[3],
          !.ThreatFamily = n[4], !.Status = n[5],
          !.Before = t[1], !.After = t[2], !.Offset = t[3], !.FoundAnything = t[4]] :
        x \in aids \X cids \X gids \X iids,
        n \in names,
        t \in befores \X afters \X offsets \X found }

DefaultNames == {<<"%", "%", "%", "%", "%">>}
AllNames ==
    {"%", "web%"} \X {"%", "phish%"} \X {"%", "bob%"} \X {"%", "malware"} \X {"%", "active"}

\* the searches and SearchCommands' flag
Calls ==
    {<<"commands", TRUE>>, <<"commands", FALSE>>, <<"actions", FALSE>>,
     <<"agents", FALSE>>, <<"investigators", FALSE>>}

\* tables of up to n rows whose time column holds one of ts
RECURSIVE Tables(_, _)
Tables(n, ts) ==
    IF n = 0 THEN {<<>>}
    ELSE Tables(n - 1, ts)
         \cup {Append(tb, Row(n, t)) : tb \in {x \in Tables(n - 1, ts) : Len(x) = n - 1},
                                      t \in ts}

InitWith(params, tables) ==
    /\ p \in params
    /\ \E c \in Calls : kind = c[1] /\ doFoundAnything = c[2]
    /\ table \in tables
    /\ clock = 0
    /\ pc = "idle"
    /\ nowB = 0
    /\ nowA = 0
    /\ ids = ZeroIDs
    /\ query = EmptyQuery
    /\ vals = <<>>
    /\ err = "nil"
    /\ out = <<>>
    /\ stmt = "nil"
    /\ rows = "nil"
    /\ defers = <<>>
    /\ data = <<>>
    /\ pos = 0
    /\ fault = "none"
    /\ log = <<>>
    /\ str = <<>>
    /\ prev = <<>>

\* one search call, with every outcome of the store and of the collaborators
Init ==
    InitWith(ParamSpace(ActionIDs, CommandIDs, AgentIDs, InvestigatorIDs, DefaultNames,
                        {defaultSearchPeriod}, {0 - defaultSearchPeriod}, {0}, {FALSE}),
             Tables(MaxRows, {0}))

Next ==
    \/ CallParseError
    \/ CallBuild
    \/ PrepareOk
    \/ PrepareFail
    \/ QueryOk
    \/ QueryFail
    \/ NextRow
    \/ NextEnd
    \/ NextCursorErr
    \/ ScanOk
    \/ ScanFail
    \/ UnmarshalOk
    \/ UnmarshalFail
    \/ CountersOk
    \/ CountersFail
    \/ InvestigatorsOk
    \/ InvestigatorsFail

Spec == Init /\ [][Next]_vars

\* the query builders alone, on every combination of filters set or left at the sentinel
InitBuild ==
    InitWith(ParamSpace({Sentinel, <<"4", "2">>}, {Sentinel, <<"7">>},
                        {Sentinel, <<"1", "3">>}, {Sentinel, <<"5">>}, AllNames,
                        BeforeValues, AfterValues, {0}, {TRUE}),
             {<<>>})

NextBuild == CallBuild

SpecBuild == InitBuild /\ [][NextBuild]_vars

\* the query string of every combination of filters
InitString ==
    /\ InitWith(ParamSpace({Sentinel, <<"4", "2">>}, {Sentinel, <<"7">>},
                           {Sentinel, <<"1", "3">>}, {Sentinel, <<"5">>}, AllNames,
                           {defaultSearchPeriod}, {0 - defaultSearchPeriod}, {0, 20}, {FALSE}),
                {<<>>})
    /\ kind = "actions"

NextString == ApplyString

SpecString == InitString /\ [][NextString]_vars

\* the caller builds default parameters, then renders them or searches with them as they are
InitNew ==
    /\ p = ZeroParameters
    /\ \E c \in Calls : kind = c[1] /\ doFoundAnything = c[2]
    /\ table = <<>>
    /\ clock = 0
    /\ pc = "new"
    /\ nowB = 0
    /\ nowA = 0
    /\ ids = ZeroIDs
    /\ query = EmptyQuery
    /\ vals = <<>>
    /\ err = "nil"
    /\ out = <<>>
    /\ stmt = "nil"
    /\ rows = "nil"
    /\ defers = <<>>
    /\ data = <<>>
    /\ pos = 0
    /\ fault = "none"
    /\ log = <<>>
    /\ str = <<>>
    /\ prev = <<>>

NextNew ==
    \/ Construct
    \/ ApplyString
    \/ CallBuild

SpecNew == InitNew /\ [][NextNew]_vars

\* identifier filters as they arrive from a query string or a JSON document: the sentinel,
\* whole numbers, a signed number, a number past 2^53, the spellings of infinity and
\* not-a-number strconv.ParseFloat accepts, and text that is no number
WireActionIDs       == {Sentinel, <<"4", "2">>, <<"-", "5">>}
WireCommandIDs      == {Sentinel, <<"7">>,
                        <<"9", "0", "0", "7", "1", "9", "9", "2", "5", "4", "7", "4", "0", "9",
                          "9", "3">>}
WireAgentIDs        == {Sentinel, <<"i", "n", "f">>, <<"x", "1">>}
WireInvestigatorIDs == {Sentinel, <<"0">>, <<"n", "a", "n">>}

\* makeIDsFromParams on such filters, at the head of each search
InitIDs ==
    InitWith(ParamSpace(WireActionIDs, WireCommandIDs, WireAgentIDs, WireInvestigatorIDs,
                        DefaultNames, {defaultSearchPeriod}, {0 - defaultSearchPeriod}, {0},
                        {FALSE}),
             {<<>>})

NextIDs ==
    \/ CallParseError
    \/ CallBuild

SpecIDs == InitIDs /\ [][NextIDs]_vars

\* two successive calls with the same SearchParameters against an unchanged, healthy
\* store, the second one later than the first
InitIdem ==
    InitWith(ParamSpace({Sentinel}, {Sentinel}, {Sentinel}, {Sentinel}, DefaultNames,
                        BeforeValues, AfterValues, {0}, {FALSE}),
             Tables(MaxIdemRows, {0, 0 - defaultSearchPeriod}))

NextIdem ==
    \/ CallBuild
    \/ PrepareOk
    \/ QueryOk
    \/ NextRow
    \/ NextEnd
    \/ ScanOk
    \/ UnmarshalOk
    \/ CountersOk
    \/ InvestigatorsOk
    \/ Again

SpecIdem == InitIdem /\ [][NextIdem]_vars

-----------------------------------------------------------------------------
(* Properties *)

IDSet(v) == v # Sentinel

PatSet(v) == v # "%"

If(cond, S) == IF cond THEN S ELSE {}

JoinedTables(qy) == {qy.join[k].tbl : k \in 1..Len(qy.join)}

\* the join rules of the design, per search, as sets of tables
RuleJoins(k, q) ==
    CASE k = "actions" ->
            If(IDSet(q.AgentID) \/ PatSet(q.AgentName), {"commands", "agents"})
            \cup If(IDSet(q.CommandID), {"commands"})
            \cup If(IDSet(q.InvestigatorID) \/ PatSet(q.InvestigatorName),
                    {"signatures", "investigators"})
      [] k = "agents" ->
            If(IDSet(q.ActionID) \/ PatSet(q.ActionName) \/ PatSet(q.ThreatFamily),
               {"commands", "actions"})
            \cup If(IDSet(q.InvestigatorID) \/ PatSet(q.InvestigatorName),
                    {"commands", "actions", "signatures", "investigators"})
            \cup If(IDSet(q.CommandID), {"commands"})
      [] k = "investigators" ->
            If(IDSet(q.ActionID) \/ PatSet(q.ActionName) \/ PatSet(q.ThreatFamily),
               {"signatures", "actions"})
            \cup If(IDSet(q.CommandID), {"signatures", "actions", "commands"})
            \cup If(IDSet(q.AgentID) \/ PatSet(q.AgentName),
                    {"signatures", "actions", "commands", "agents"})

\* C1: in SearchActions, SearchAgents and SearchInvestigators the tables joined in the
\* assembled query are exactly those the join rules require for the filters that are
\* set, and each is joined once.
C1_JoinsExact ==
    (pc = "prepare" /\ kind # "commands")
        => /\ JoinedTables(query) = RuleJoins(kind, p)
           /\ Cardinality(JoinedTables(query)) = Len(query.join)

\* an agents search by investigator name alone: three joins follow transitively
C1_Witness ==
    /\ pc = "prepare"
    /\ kind = "agents"
    /\ p.InvestigatorName # "%"
    /\ p.InvestigatorID = Sentinel /\ p.CommandID = Sentinel /\ p.ActionID = Sentinel
    /\ p.ActionName = "%" /\ p.ThreatFamily = "%"
    /\ Len(query.join) = 4

IsCmp(tk) == tk.tok = "cmp"

\* the placeholders of a query in order of appearance
Placeholders(qy) ==
    LET cmps == SelectSeq(qy.where, IsCmp)
    IN  [k \in 1..Len(cmps) |-> cmps[k].ph] \o <<qy.limit, qy.offset>>

\* the value a predicate is about
ClauseValue(tk) ==
    CASE tk.col = "id" /\ tk.op = ">=" ->
            (CASE tk.tbl = "commands" -> "ids.minCommandID"
               [] tk.tbl = "actions" -> "ids.minActionID"
               [] tk.tbl = "agents" -> "ids.minAgentID"
               [] tk.tbl = "investigators" -> "ids.minInvID")
      [] tk.col = "id" /\ tk.op = "<=" ->
            (CASE tk.tbl = "commands" -> "ids.maxCommandID"
               [] tk.tbl = "actions" -> "ids.maxActionID"
               [] tk.tbl = "agents" -> "ids.maxAgentID"
               [] tk.tbl = "investigators" -> "ids.maxInvID")
      [] tk.col = "name" ->
            (CASE tk.tbl = "actions" -> "p.ActionName"
               [] tk.tbl = "agents" -> "p.AgentName"
               [] tk.tbl = "investigators" -> "p.InvestigatorName")
      [] tk.col = "status" /\ tk.op = "ILIKE" -> "p.Status"
      [] tk.col = "status" /\ tk.op = "=" -> "mig.StatusSuccess"
      [] tk.col = "threat.family" -> "p.ThreatFamily"
      [] tk.col = "foundanything" -> "p.FoundAnything"
      [] tk.op = "<=" -> "p.Before"
      [] tk.op = ">=" -> "p.After"

Count(S) == Cardinality(S)

\* slots the filters of a call need: two per identifier, one per pattern, one per time
\* bound rendered, four for the FoundAnything clause, two for LIMIT and OFFSET
SlotsNeeded ==
    2 * Count({f \in {"ActionID", "CommandID", "AgentID", "InvestigatorID"} : IDSet(p[f])})
    + Count({f \in {"ActionName", "AgentName", "InvestigatorName", "ThreatFamily", "Status"} :
                PatSet(p[f])})
    + (IF p.Before < nowB + defaultSearchPeriod - Hour THEN 1 ELSE 0)
    + (IF p.After > nowA - defaultSearchPeriod + Hour THEN 1 ELSE 0)
    + (IF kind = "commands" /\ doFoundAnything THEN 4 ELSE 0)
    + 2

\* C4: the placeholders of the assembled query are 1..n in order of appearance, LIMIT and
\* OFFSET take n-1 and n, there are n bound values, the i-th value is the one the clause
\* holding placeholder i is about, and n is the number of slots the filters need.
C4_Placeholders ==
    pc = "prepare"
        => LET phs == Placeholders(query)
               n   == Len(phs)
           IN  /\ \A k \in 1..n : phs[k] = k
               /\ Len(vals) = n
               /\ query.limit = n - 1 /\ query.offset = n
               /\ vals[n - 1].src = "p.Limit" /\ vals[n].src = "p.Offset"
               /\ \A k \in 1..Len(query.where) :
                     IsCmp(query.where[k])
                        => /\ query.where[k].ph \in 1..Len(vals)
                           /\ vals[query.where[k].ph].src = ClauseValue(query.where[k])
               /\ n = SlotsNeeded

\* a commands search with the FoundAnything clause behind two ranges and two patterns
C4_Witness ==
    /\ pc = "prepare"
    /\ kind = "commands" /\ doFoundAnything
    /\ p.CommandID # Sentinel /\ p.AgentID # Sentinel
    /\ p.Status # "%" /\ p.ThreatFamily # "%"
    /\ Len(vals) >= 13

BeforePred == \E k \in 1..Len(query.where) :
                 /\ IsCmp(query.where[k])
                 /\ query.where[k].op = "<="
                 /\ vals[query.where[k].ph].ty = "time"

AfterPred == \E k \in 1..Len(query.where) :
                 /\ IsCmp(query.where[k])
                 /\ query.where[k].op = ">="
                 /\ vals[query.where[k].ph].ty = "time"

Abs(x) == IF x < 0 THEN 0 - x ELSE x

\* C5: a Before within one hour of (now + defaultSearchPeriod), now being the clock the
\* search reads, produces no Before predicate, and a Before predicate is rendered only
\* when Before is more than one hour away from it; likewise After and
\* (now - defaultSearchPeriod).
C5_TimeWindow ==
    pc = "prepare"
        => /\ Abs(p.Before - (nowB + defaultSearchPeriod)) <= Hour => ~BeforePred
           /\ BeforePred => Abs(p.Before - (nowB + defaultSearchPeriod)) > Hour
           /\ Abs(p.After - (nowA - defaultSearchPeriod)) <= Hour => ~AfterPred
           /\ AfterPred => Abs(p.After - (nowA - defaultSearchPeriod)) > Hour

\* Before exactly one hour inside the boundary is not rendered while After, more than one
\* hour inside, is
C5_Witness ==
    /\ pc = "prepare"
    /\ p.Before = nowB + defaultSearchPeriod - Hour
    /\ ~BeforePred
    /\ p.After = nowA - defaultSearchPeriod + Hour + 1
    /\ AfterPred

KeyOrder ==
    <<"type", "after", "before", "agentname", "agentid", "actionname", "actionid",
      "commandid", "investigatorid", "investigatorname", "threatfamily", "status",
      "limit", "offset">>

KeyIndex(k) == CHOOSE i \in 1..Len(KeyOrder) : KeyOrder[i] = k

Keys(sg) == [k \in 1..Len(sg) |-> sg[k].key]

Emits(sg, k) == \E i \in 1..Len(sg) : sg[i].key = k

\* C10: String() always emits type, after, before and limit, emits the key of every other
\* filter exactly when the field differs from its default, and the emitted keys follow the
\* fixed order.
C10_String ==
    str # <<>>
        => /\ \A k \in {"type", "after", "before", "limit"} : Emits(str, k)
           /\ Emits(str, "agentname") <=> p.AgentName # "%"
           /\ Emits(str, "agentid") <=> p.AgentID # Sentinel
           /\ Emits(str, "actionname") <=> p.ActionName # "%"
           /\ Emits(str, "actionid") <=> p.ActionID # Sentinel
           /\ Emits(str, "commandid") <=> p.CommandID # Sentinel
           /\ Emits(str, "investigatorid") <=> p.InvestigatorID # Sentinel
           /\ Emits(str, "investigatorname") <=> p.InvestigatorName # "%"
           /\ Emits(str, "threatfamily") <=> p.ThreatFamily # "%"
           /\ Emits(str, "status") <=> p.Status # "%"
           /\ Emits(str, "offset") <=> p.Offset # 0
           /\ \A i \in 1..Len(str) : \E j \in 1..Len(KeyOrder) : KeyOrder[j] = str[i].key
           /\ \A i, j \in 1..Len(str) :
                 i < j => KeyIndex(str[i].key) < KeyIndex(str[j].key)
           /\ p = NewSearchParameters(0, 0) => Keys(str) = <<"type", "after", "before", "limit">>

\* every filter set: all fourteen keys are emitted
C10_Witness == Len(str) = 14 /\ p.Offset # 0 /\ p.Status # "%"


IDFields == {"ActionID", "CommandID", "AgentID", "InvestigatorID"}

MinOf(i, f) ==
    CASE f = "ActionID" -> i.minActionID [] f = "CommandID" -> i.minCommandID
      [] f = "AgentID" -> i.minAgentID [] f = "InvestigatorID" -> i.minInvID

MaxOf(i, f) ==
    CASE f = "ActionID" -> i.maxActionID [] f = "CommandID" -> i.maxCommandID
      [] f = "AgentID" -> i.maxAgentID [] f = "InvestigatorID" -> i.maxInvID

\* the numbers the numeric filters of the model denote
NumberOf(s) ==
    CASE s = <<"4", "2">> -> Num(0, 42)
      [] s = <<"7">> -> Num(0, 7)
      [] s = <<"0">> -> Num(0, 0)
      [] s = <<"1", "2", "3", "4", "5", "6", "7", "8", "9", "0", "1", "2", "3">>
            -> Num(12345, 67890123)

\* C2: the sentinel resolves to [0, 2^53-1] and a numeric string v to [v, v]; when an
\* identifier filter is no number the search returns a parse error and an empty
\* collection, and neither Prepare nor Query reached the store.
C2_Resolve ==
    pc # "idle"
        => IF \E f \in IDFields : p[f] \in NotNumbers
           THEN /\ pc = "returned"
                /\ err # "nil"
                /\ out = <<>>
                /\ log = <<>>
                /\ stmt = "nil" /\ rows = "nil"
           ELSE \A f \in IDFields :
                   IF p[f] = Sentinel
                   THEN MinOf(ids, f) = Num(0, 0) /\ MaxOf(ids, f) = MAXFLOAT64
                   ELSE MinOf(ids, f) = NumberOf(p[f]) /\ MaxOf(ids, f) = NumberOf(p[f])

\* an agents search with ActionID "42" and AgentID "-" has returned the parse error
C2_Witness ==
    /\ pc = "returned"
    /\ kind = "agents"
    /\ p.ActionID = <<"4", "2">>
    /\ p.AgentID = <<"-">>
    /\ err = "parse"
    /\ ids.minActionID = Num(0, 42)

\* C3: when the cursor reports a completion error after the row loop, the search returns
\* a non-nil error.
C3_CursorErrorReported ==
    (pc = "returned" /\ fault = "cursor") => err # "nil"

Issued(op) == \E k \in 1..Len(log) : log[k].op = op

\* C6: once Prepare was called, every statement and every cursor the call obtained is
\* closed when the call returns.
C6_Released ==
    pc = "returned"
        => /\ stmt # "open" /\ rows # "open"
           /\ (Issued("Prepare") /\ fault # "prepare") => stmt = "closed"
           /\ (Issued("Query") /\ fault # "query") => rows = "closed"

\* a call that failed on an enrichment lookup has closed both
C6_Witness ==
    pc = "returned" /\ fault = "investigators" /\ stmt = "closed" /\ rows = "closed"

RowFaults == {"scan", "unmarshal", "counters", "investigators"}

IsLookup(e) == e.op \in {"counters", "investigators"}

\* C7: in SearchCommands and SearchActions a failure on the k-th row ends the call with a
\* non-nil error and a collection holding exactly the k-1 rows before it, in cursor
\* order; no lookup was issued for a later row.
C7_RowFailure ==
    (Hydrates /\ pc = "returned" /\ fault \in RowFaults)
        => /\ err # "nil"
           /\ pos >= 1
           /\ out = SubSeq(data, 1, pos - 1)
           /\ \A k \in 1..Len(log) :
                 IsLookup(log[k]) => \E j \in 1..pos : data[j].id = log[k].row

\* the second row failed to deserialize: the first row alone is returned
C7_Witness ==
    /\ Hydrates
    /\ pc = "returned"
    /\ fault = "unmarshal"
    /\ pos = 2
    /\ Len(out) = 1

Lookups == SelectSeq(log, IsLookup)

IsQuery(e) == e.op = "Query"

\* C8 as stated: a call that returns N records has issued at most 2N enrichment lookups.
C8_AtMostTwoPerRecord ==
    (pc = "returned" /\ Hydrates) => Len(Lookups) <= 2 * Len(out)

\* C8, amended: a call issues at most one primary query; in SearchCommands and
\* SearchActions the lookups are issued counters-then-investigators, row by row in cursor
\* order, none for a row before the row ahead of it was appended and none after a failed
\* one, so a call that returns N records has issued exactly 2N lookups unless it failed
\* on a lookup, and then 2N+1 or 2N+2; SearchAgents and SearchInvestigators issue none.
C8_Enrichment ==
    /\ Len(SelectSeq(log, IsQuery)) <= 1
    /\ rows # "nil" => Len(SelectSeq(log, IsQuery)) = 1
    /\ ~Hydrates => Lookups = <<>>
    /\ \A j \in 1..Len(Lookups) :
          Lookups[j] = Event(IF j % 2 = 1 THEN "counters" ELSE "investigators",
                             data[(j + 1) \div 2].id)
    /\ Hydrates
          => /\ 2 * Len(out) <= Len(Lookups)
             /\ Len(Lookups) <= 2 * Len(out) + 2
             /\ fault = "counters" => Len(Lookups) = 2 * Len(out) + 1
             /\ fault = "investigators" => Len(Lookups) = 2 * Len(out) + 2
             /\ (pc = "returned" /\ fault \notin {"counters", "investigators"})
                   => Len(Lookups) = 2 * Len(out)

\* one record returned, the second row's investigators lookup failed: four lookups
C8_Witness ==
    /\ pc = "returned"
    /\ Hydrates
    /\ fault = "investigators"
    /\ Len(out) = 1
    /\ Len(Lookups) = 4


\* C9 as stated: two calls with identical SearchParameters against an unmodified store
\* return identical ordered collections, whatever the times at which they are made.
C9_Idempotent ==
    (prev # <<>> /\ pc = "returned") => out = prev[1].out

\* both calls read clocks on the same side of the one-hour tolerance of Before and After
SameSide ==
    /\ (p.Before < nowB + defaultSearchPeriod - Hour)
          <=> (p.Before < prev[1].nowB + defaultSearchPeriod - Hour)
    /\ (p.After > nowA - defaultSearchPeriod + Hour)
          <=> (p.After > prev[1].nowA - defaultSearchPeriod + Hour)

\* C9, amended: two calls with identical SearchParameters against an unmodified, healthy
\* store assemble the same query and values and return identical collections provided
\* the clocks they read lie on the same side of the one-hour tolerance around
\* now + defaultSearchPeriod (for Before) and now - defaultSearchPeriod (for After).
C9_SameSideIdempotent ==
    (prev # <<>> /\ pc = "returned" /\ SameSide)
        => /\ query = prev[1].query
           /\ vals = prev[1].vals
           /\ out = prev[1].out

\* the second call read a later clock, both rendered the Before predicate and returned
\* the same row
C9_Witness ==
    /\ prev # <<>>
    /\ pc = "returned"
    /\ SameSide
    /\ nowB > prev[1].nowB
    /\ BeforePred
    /\ Len(out) = 1

-----------------------------------------------------------------------------
\* ten years of 365 days, in ticks: the 87,600 hours of the documented window
TenYears == 10 * 365 * 24 * Hour

\* the leap days ten calendar years may hold, in ticks
LeapDays == 3 * 24 * Hour

\* d is ten years, give or take the leap days
AboutTenYears(d) == Abs(d - TenYears) <= LeapDays

\* an instant of the construction call: the clock was read within it
DuringConstruction(t) == t \in 0..clock

\* C11: once NewSearchParameters has returned, Before is the construction time plus ten
\* years and After is the construction time minus ten years, every identifier filter is
\* the infinity sentinel, every pattern filter is "%", Limit is 100 and Offset is 0.
C11_TenYearWindow ==
    pc # "new" =>
        /\ \E t \in 0..MaxElapsed : DuringConstruction(t) /\ AboutTenYears(p.Before - t)
        /\ \E t \in 0..MaxElapsed : DuringConstruction(t) /\ AboutTenYears(t - p.After)
        /\ \A f \in {"ActionID", "CommandID", "AgentID", "InvestigatorID"} : p[f] = Sentinel
        /\ \A f \in {"AgentName", "ActionName", "InvestigatorName", "ThreatFamily", "Status"} :
               p[f] = "%"
        /\ p.Limit = 100
        /\ p.Offset = 0

-----------------------------------------------------------------------------
\* tables the query has named once its k-th join is written: FROM's and the joins so far
TablesUpTo(qy, k) == {qy.from} \cup {qy.join[j].tbl : j \in 1..k}

\* the k-th token of WHERE lies inside the subquery: an IN ( SELECT opens before it and
\* no later filter's clause has begun
InSubquery(qy, k) ==
    \E j \in 1..(k - 1) :
        /\ qy.where[j].tok = "insub"
        /\ \A i \in (j + 1)..k : qy.where[i].tok # "sep"

\* tables a predicate at position k of WHERE may name
ScopeAt(qy, k) ==
    TablesUpTo(qy, Len(qy.join)) \cup (IF InSubquery(qy, k) THEN SubqueryFrom ELSE {})

\* every ON condition names the primary table, a table joined before it or the table it joins
JoinsInScope(qy) ==
    \A k \in 1..Len(qy.join) :
        {qy.join[k].l[1], qy.join[k].r[1]} \subseteq TablesUpTo(qy, k)

\* every predicate of WHERE names a table of the query
WhereInScope(qy) ==
    \A k \in 1..Len(qy.where) :
        qy.where[k].tok \in {"cmp", "insub"} => qy.where[k].tbl \in ScopeAt(qy, k)

\* C12: in the query each search assembles, whatever filters are set, every table a WHERE
\* predicate or a join's ON condition names is the primary table or a table joined earlier
\* in the join clause.
C12_TablesInScope ==
    pc = "prepare" => JoinsInScope(query) /\ WhereInScope(query)

-----------------------------------------------------------------------------
\* a token of WHERE that is an AND, between two filters' clauses or inside one
IsAnd(tk) == tk.tok \in {"sep", "and"}

\* the text between WHERE and GROUP BY holds a predicate
HasPredicate(qy) == \E k \in 1..Len(qy.where) : ~IsAnd(qy.where[k])

\* predicates and ANDs alternate, and the text neither starts nor ends with an AND
WellSeparated(qy) ==
    /\ \A k \in 1..Len(qy.where) : IsAnd(qy.where[k]) <=> k % 2 = 0
    /\ Len(qy.where) > 0 => Len(qy.where) % 2 = 1

\* C13: whatever the SearchParameters, also with every filter at its default and no time
\* predicate rendered, the assembled query holds at least one predicate between WHERE and
\* GROUP BY, consecutive predicates are separated by exactly one AND and no AND leads or
\* trails.
C13_WherePredicates ==
    pc = "prepare" => HasPredicate(query) /\ WellSeparated(query)

-----------------------------------------------------------------------------
\* 0 <= lo <= hi <= 2^53-1 on float64
InIDRange(lo, hi) ==
    /\ FloatLeq(Num(0, 0), lo)
    /\ FloatLeq(lo, hi)
    /\ FloatLeq(hi, MAXFLOAT64)

\* C14: when makeIDsFromParams returns no error, each of the four ranges it resolved
\* satisfies 0 <= min <= max <= 2^53-1, whatever identifier filters were accepted.
C14_RangesWithinBounds ==
    (pc = "prepare" /\ makeIDsFromParams(p).err = "nil") =>
        \A f \in IDFields : InIDRange(MinOf(ids, f), MaxOf(ids, f))

====
